---- MODULE Spec2Model ----
(***************************************************************************)
(* The simple debugger (sdb) of NEMU: the expression lexer and evaluator   *)
(* of nemu/src/monitor/sdb/expr.c and the command loop of                  *)
(* nemu/src/monitor/sdb/sdb.c.                                             *)
(*                                                                         *)
(* A C string is a sequence of one-character strings; the terminating NUL  *)
(* is the end of the sequence.  A C int is an integer in                   *)
(* [-IntMax-1, IntMax]; an operation whose mathematical result leaves that *)
(* range is undefined behaviour (signed overflow) and so is a division by  *)
(* zero.  long is taken to be 64 bits wide (LP64).                         *)
(***************************************************************************)
EXTENDS Integers, Sequences, FiniteSets, TLC

VARIABLES
    \* ---- expr.c ----
    pc,          \* "idle": no call of expr() in progress; "make_token": inside
                 \* the while loop of make_token; "dead": the process was ended
                 \* by panic(), assert(0) or a crash
    e,           \* the argument string of the current call of expr()
    position,    \* make_token's scan offset (0-based)
    nr_token,    \* static int nr_token
    tokens,      \* static Token tokens[32]: index -> [type, str]
    success,     \* *success of the last call
    result,      \* the value the last call returned
    outcome,     \* how the last call ended
    ncalls,      \* calls of expr() made so far
    cur,         \* the corpus entry the current call was made with
    corpus,      \* the corpus the first call draws its input from
    step,        \* what the last iteration of make_token's loop did
    \* ---- sdb.c ----
    spc,         \* "start": before sdb_mainloop; "loop": at rl_gets();
                 \* "returned": sdb_mainloop has returned
    is_batch_mode,
    nemu_state,  \* nemu_state.state
    pmem,        \* the memory collaborator's mapped range [lo, hi)
    nlines,      \* lines read so far
    last         \* what the last iteration of the loop did

exprVars == <<pc, e, position, nr_token, tokens, success, result, outcome, ncalls, cur,
              corpus, step>>
sdbVars == <<spc, is_batch_mode, nemu_state, pmem, nlines, last>>
vars == <<pc, e, position, nr_token, tokens, success, result, outcome, ncalls, cur,
          corpus, step, spc, is_batch_mode, nemu_state, pmem, nlines, last>>

----------------------------------------------------------------------------
(* Bounds of the model *)

\* calls of expr() in one run
MaxCalls == 2
\* literals in a generated well-formed expression
MaxLeaves == 3
\* characters of a generated raw input string
MaxLen == 4
\* lines the line reader delivers in one run
MaxLines == 2

----------------------------------------------------------------------------
(* C integers *)

IntMax == 2147483647
IntMin == -IntMax - 1

Max(a, b) == IF a >= b THEN a ELSE b
Min(a, b) == IF a <= b THEN a ELSE b
Abs(a) == IF a < 0 THEN -a ELSE a

\* C's / on ints truncates toward zero (b # 0)
CDiv(a, b) ==
    LET q == Abs(a) \div Abs(b)
    IN  IF (a < 0) = (b < 0) THEN q ELSE -q

\* C's % on ints: the sign of the dividend (b # 0)
CMod(a, b) == a - b * CDiv(a, b)

----------------------------------------------------------------------------
(* Characters *)

DecDigits == <<"0", "1", "2", "3", "4", "5", "6", "7", "8", "9">>
LowerHex == <<"a", "b", "c", "d", "e", "f">>
UpperHex == <<"A", "B", "C", "D", "E", "F">>

Range(s) == {s[i] : i \in 1..Len(s)}

IsDigit(c) == c \in Range(DecDigits)
IsNonZeroDigit(c) == IsDigit(c) /\ c # "0"
IsHexDigit(c) == c \in Range(DecDigits) \cup Range(LowerHex) \cup Range(UpperHex)
Letters == {"a", "b", "c", "d", "e", "f", "g", "h", "i", "j", "k", "l", "m",
            "n", "o", "p", "q", "r", "s", "t", "u", "v", "w", "x", "y", "z",
            "A", "B", "C", "D", "E", "F", "G", "H", "I", "J", "K", "L", "M",
            "N", "O", "P", "Q", "R", "S", "T", "U", "V", "W", "X", "Y", "Z"}
IsAlnum(c) == IsDigit(c) \/ c \in Letters

IndexOf(s, c) == CHOOSE i \in 1..Len(s) : s[i] = c

\* the value of a hexadecimal digit
HexVal(c) ==
    IF c \in Range(DecDigits) THEN IndexOf(DecDigits, c) - 1
    ELSE IF c \in Range(LowerHex) THEN IndexOf(LowerHex, c) + 9
    ELSE IndexOf(UpperHex, c) + 9

\* the character at 0-based offset p of s, "" for the terminating NUL
At(s, p) == IF p < Len(s) THEN s[p + 1] ELSE ""

\* the suffix of s from 0-based offset p
From(s, p) == SubSeq(s, p + 1, Len(s))

----------------------------------------------------------------------------
(* expr.c: token types and rules *)

TK_NOTYPE == 256
TK_EQ == 257
TK_ADD == 258
TK_SUB == 259
TK_MULTIPLY == 260
TK_DIVIDE == 261
TK_OPENPARENTHESIS == 262
TK_CLOSEPARENTHESIS == 263
TK_NUMBER == 264
TK_HEX_NUMBER == 265
TK_REG_NAME == 266
TK_DEREF == 267

\* sizeof(tokens) / sizeof(tokens[0])
NR_TOKENS == 32
\* sizeof(tokens[0].str)
STR_SIZE == 32

rules == <<
    [regex |-> "[ ]", token_type |-> TK_NOTYPE],
    [regex |-> "==", token_type |-> TK_EQ],
    [regex |-> "\\+", token_type |-> TK_ADD],
    [regex |-> "\\-", token_type |-> TK_SUB],
    [regex |-> "\\*", token_type |-> TK_MULTIPLY],
    [regex |-> "\\/", token_type |-> TK_DIVIDE],
    [regex |-> "\\(", token_type |-> TK_OPENPARENTHESIS],
    [regex |-> "\\)", token_type |-> TK_CLOSEPARENTHESIS],
    [regex |-> "[1-9][0-9]*", token_type |-> TK_NUMBER],
    [regex |-> "0[xX][0-9a-fA-F]+", token_type |-> TK_HEX_NUMBER],
    [regex |-> "\\$[a-zA-Z0-9]+", token_type |-> TK_REG_NAME] >>

NR_REGEX == Len(rules)

\* the length of the longest run of characters satisfying the class, from
\* offset p of s
RECURSIVE DigitRun(_, _)
DigitRun(s, p) == IF IsDigit(At(s, p)) THEN 1 + DigitRun(s, p + 1) ELSE 0

RECURSIVE HexRun(_, _)
HexRun(s, p) == IF IsHexDigit(At(s, p)) THEN 1 + HexRun(s, p + 1) ELSE 0

RECURSIVE AlnumRun(_, _)
AlnumRun(s, p) == IF IsAlnum(At(s, p)) THEN 1 + AlnumRun(s, p + 1) ELSE 0

\* regexec(&re[i], s + p, 1, &pmatch, 0) == 0 && pmatch.rm_so == 0:
\* the length rm_eo of the match of rules[i] that starts exactly at offset p
\* (POSIX leftmost-longest), 0 when there is none
MatchLen(i, s, p) ==
    LET rx == rules[i].regex
        c == At(s, p)
    IN  CASE rx = "[ ]" -> IF c = " " THEN 1 ELSE 0
          [] rx = "==" -> IF c = "=" /\ At(s, p + 1) = "=" THEN 2 ELSE 0
          [] rx = "\\+" -> IF c = "+" THEN 1 ELSE 0
          [] rx = "\\-" -> IF c = "-" THEN 1 ELSE 0
          [] rx = "\\*" -> IF c = "*" THEN 1 ELSE 0
          [] rx = "\\/" -> IF c = "/" THEN 1 ELSE 0
          [] rx = "\\(" -> IF c = "(" THEN 1 ELSE 0
          [] rx = "\\)" -> IF c = ")" THEN 1 ELSE 0
          [] rx = "[1-9][0-9]*" ->
                IF IsNonZeroDigit(c) THEN 1 + DigitRun(s, p + 1) ELSE 0
          [] rx = "0[xX][0-9a-fA-F]+" ->
                IF c = "0" /\ At(s, p + 1) \in {"x", "X"} /\ IsHexDigit(At(s, p + 2))
                THEN 2 + HexRun(s, p + 2) ELSE 0
          [] rx = "\\$[a-zA-Z0-9]+" ->
                IF c = "$" /\ IsAlnum(At(s, p + 1)) THEN 1 + AlnumRun(s, p + 1) ELSE 0
          [] OTHER -> 0

\* the for loop over the rules: the first rule that matches at offset p,
\* NR_REGEX + 1 when none does (i == NR_REGEX in the source's 0-based count)
FirstRule(s, p) ==
    IF \E i \in 1..NR_REGEX : MatchLen(i, s, p) > 0
    THEN CHOOSE i \in 1..NR_REGEX :
            /\ MatchLen(i, s, p) > 0
            /\ \A j \in 1..(i - 1) : MatchLen(j, s, p) = 0
    ELSE NR_REGEX + 1

----------------------------------------------------------------------------
(* expr.c: make_token *)

\* a check_nr_valid that lets a 33rd token in (> for >=)
NrOverflowLate(nr) == nr > NR_TOKENS

\* check_nr_valid panics when this holds of nr_token
NrOverflow(nr) == nr >= NR_TOKENS

\* a check_substr_valid that lets 32 characters in (> for >=)
SubstrOverflowLate(substr_len) == substr_len > STR_SIZE

\* check_substr_valid panics when this holds of substr_len
SubstrOverflow(substr_len) == substr_len >= STR_SIZE

\* the condition of the if statement under case TK_ADD / TK_SUB / TK_MULTIPLY
DerefContext(nr, toks) ==
    \/ nr = 0
    \/ toks[nr - 1].type \in {TK_ADD, TK_SUB, TK_MULTIPLY, TK_DIVIDE, TK_OPENPARENTHESIS}

\* the token types whose case label stands above the if statement
\* (TK_ADD and TK_SUB share it with TK_MULTIPLY)
DerefCases == {TK_ADD, TK_SUB, TK_MULTIPLY}

\* the type the switch statement stores for a match of a rule of type ty
StoredType(ty, nr, toks) ==
    IF ty \in DerefCases /\ DerefContext(nr, toks) THEN TK_DEREF ELSE ty

\* a store without the memset: the characters the str field held beyond the
\* new lexeme stay
StoreLexemeNoMemset(toks, nr, ty, str) ==
    [toks EXCEPT ![nr] = [type |-> ty,
                          str |-> str \o SubSeq(toks[nr].str, Len(str) + 1, Len(toks[nr].str))]]

\* memset(tokens[nr].str, 0, 32); memcpy(tokens[nr].str, substr_start, len);
\* tokens[nr].type = ty
StoreLexeme(toks, nr, ty, str) == [toks EXCEPT ![nr] = [type |-> ty, str |-> str]]

\* tokens[nr].type = ty: the str field keeps what it held
StoreType(toks, nr, ty) == [toks EXCEPT ![nr].type = ty]

\* One iteration of the while loop of make_token at offset p of s, with
\* nr tokens stored in toks.  st is "more" (the loop goes on), "nomatch"
\* (return false), "panic_nr" (check_nr_valid), "panic_substr"
\* (check_substr_valid) or "panic_todo" (TODO()); wr is the index of tokens
\* written, -1 when none is; len and raw are the match's length and type.
MakeTokenIter(s, p, nr, toks) ==
    LET i == FirstRule(s, p)
    IN  IF i = NR_REGEX + 1
        THEN [st |-> "nomatch", position |-> p, nr_token |-> nr, tokens |-> toks,
              wr |-> -1, len |-> 0, raw |-> 0]
        ELSE
        LET substr_len == MatchLen(i, s, p)
            ty == rules[i].token_type
            str == SubSeq(s, p + 1, p + substr_len)
            base == [st |-> "more", position |-> p + substr_len, nr_token |-> nr,
                     tokens |-> toks, wr |-> -1, len |-> substr_len, raw |-> ty]
        IN  CASE ty \in {TK_NUMBER, TK_HEX_NUMBER, TK_REG_NAME} ->
                    IF NrOverflow(nr) THEN [base EXCEPT !.st = "panic_nr"]
                    ELSE IF SubstrOverflow(substr_len) THEN [base EXCEPT !.st = "panic_substr"]
                    ELSE [base EXCEPT !.tokens = StoreLexeme(toks, nr, ty, str),
                                      !.nr_token = nr + 1, !.wr = nr]
              [] ty \in {TK_ADD, TK_SUB, TK_MULTIPLY, TK_DIVIDE,
                         TK_OPENPARENTHESIS, TK_CLOSEPARENTHESIS} ->
                    IF NrOverflow(nr) THEN [base EXCEPT !.st = "panic_nr"]
                    ELSE [base EXCEPT !.tokens = StoreType(toks, nr, StoredType(ty, nr, toks)),
                                      !.nr_token = nr + 1, !.wr = nr]
              [] ty = TK_NOTYPE -> base
              [] OTHER -> [base EXCEPT !.st = "panic_todo"]

\* make_token(s) on the buffer toks, from offset p with nr tokens stored:
\* st is "done" when it returns true
RECURSIVE MakeTokenFrom(_, _, _, _)
MakeTokenFrom(s, p, nr, toks) ==
    IF p >= Len(s) THEN [st |-> "done", nr_token |-> nr, tokens |-> toks]
    ELSE LET r == MakeTokenIter(s, p, nr, toks)
         IN  IF r.st = "more" THEN MakeTokenFrom(s, r.position, r.nr_token, r.tokens)
             ELSE [st |-> r.st, nr_token |-> r.nr_token, tokens |-> r.tokens]

\* make_token(s) with tokens holding toks at its start: position = 0 and
\* nr_token = 0
make_token(s, toks) == MakeTokenFrom(s, 0, 0, toks)

----------------------------------------------------------------------------
(* expr.c: check_parentheses and eval *)

\* check_parentheses, with the count so far as num
RECURSIVE CheckParenFrom(_, _, _, _)
CheckParenFrom(toks, token_start, token_end, num) ==
    IF token_end < token_start THEN num = 0
    ELSE LET ty == toks[token_end].type
             n1 == CASE ty = TK_CLOSEPARENTHESIS -> num + 1
                     [] ty = TK_OPENPARENTHESIS -> num - 1
                     [] OTHER -> num
         IN  IF n1 < 0 THEN FALSE
             ELSE CheckParenFrom(toks, token_start, token_end - 1, n1)

check_parentheses(toks, token_start, token_end) ==
    CheckParenFrom(toks, token_start, token_end, 0)

\* The results of eval: a value, the abort of assert(0), or undefined
\* behaviour (signed overflow, division by zero, atoi out of range).
Val(n) == [k |-> "val", v |-> n]
Aborted == [k |-> "assert", v |-> 0]
Undefined == [k |-> "ub", v |-> 0]

InInt(n) == IntMin <= n /\ n <= IntMax

AddOverflows(a, b) ==
    \/ b > 0 /\ a > IntMax - b
    \/ b < 0 /\ a < IntMin - b

MulOverflows(a, b) ==
    /\ a # 0
    /\ b # 0
    /\ \/ a = IntMin \/ b = IntMin
       \/ Abs(a) > IntMax \div Abs(b)

\* a <op> b on ints
Arith(op, a, b) ==
    CASE op = TK_ADD -> IF AddOverflows(a, b) THEN Undefined ELSE Val(a + b)
      [] op = TK_SUB -> IF b = IntMin \/ AddOverflows(a, -b) THEN Undefined ELSE Val(a - b)
      [] op = TK_MULTIPLY -> IF MulOverflows(a, b) THEN Undefined ELSE Val(a * b)
      [] op = TK_DIVIDE -> IF b = 0 \/ (a = IntMin /\ b = -1) THEN Undefined
                           ELSE Val(CDiv(a, b))

\* eval(l) <op> eval(r): the order of the two calls is unspecified, so
\* undefined behaviour in either covers an abort in the other
Combine(op, l, r) ==
    IF l.k = "ub" \/ r.k = "ub" THEN Undefined
    ELSE IF l.k = "assert" \/ r.k = "assert" THEN Aborted
    ELSE Arith(op, l.v, r.v)

\* the value of the decimal digits str, -1 when it exceeds IntMax
RECURSIVE DecValue(_, _)
DecValue(str, acc) ==
    IF str = <<>> THEN acc
    ELSE LET d == HexVal(Head(str))
         IN  IF acc = -1 \/ acc > (IntMax - d) \div 10 THEN -1
             ELSE DecValue(Tail(str), acc * 10 + d)

\* atoi(str) of a TK_NUMBER lexeme: the digits up to the first character
\* that is none; undefined when the value is no int
atoi(str) ==
    LET n == DecValue(SubSeq(str, 1, DigitRun(str, 0)), 0)
    IN  IF n = -1 THEN Undefined ELSE Val(n)

RECURSIVE StripZeros(_)
StripZeros(str) ==
    IF str # <<>> /\ Head(str) = "0" THEN StripZeros(Tail(str)) ELSE str

\* the value of at most 7 hex digits
RECURSIVE HexValue(_, _)
HexValue(str, acc) ==
    IF str = <<>> THEN acc ELSE HexValue(Tail(str), acc * 16 + HexVal(Head(str)))

\* (int) strtol(str, NULL, 16) of a TK_HEX_NUMBER lexeme ("0x" and hex
\* digits, up to the first character that is none): strtol saturates at
\* LONG_MAX, the conversion to int keeps the low 32 bits
strtol16(str) ==
    LET sig == StripZeros(SubSeq(str, 3, 2 + HexRun(str, 2)))
        n == Len(sig)
    IN  IF n > 16 \/ (n = 16 /\ HexVal(sig[1]) >= 8) THEN -1
        ELSE LET low == SubSeq(sig, Max(1, n - 7), n)
                 top == IF Len(low) = 8 THEN HexVal(low[1]) ELSE 0
                 rest == HexValue(IF Len(low) = 8 THEN Tail(low) ELSE low, 0)
             IN  IF top < 8 THEN top * 268435456 + rest
                 ELSE ((top - 8) * 268435456 + rest) + IntMin

\* the values eval returns for a dereference and for a register name
\* (EXPR_UNIT_TEST_ENABLED is 1)
DEREF_VALUE == 1
REG_VALUE == 2

\* the backward scan for an operator of the set ops outside parentheses:
\* the index of the split, -1 when the scan ends without one
RECURSIVE ScanFrom(_, _, _, _, _)
ScanFrom(toks, token_start, token_tmp, num, ops) ==
    IF token_tmp < token_start THEN -1
    ELSE LET ty == toks[token_tmp].type
         IN  CASE ty = TK_OPENPARENTHESIS ->
                    ScanFrom(toks, token_start, token_tmp - 1, num + 1, ops)
               [] ty = TK_CLOSEPARENTHESIS ->
                    ScanFrom(toks, token_start, token_tmp - 1, num - 1, ops)
               [] ty \in ops ->
                    IF num # 0 THEN ScanFrom(toks, token_start, token_tmp - 1, num, ops)
                    ELSE token_tmp
               [] OTHER -> ScanFrom(toks, token_start, token_tmp - 1, num, ops)

ScanSplit(toks, token_start, token_end, ops) ==
    ScanFrom(toks, token_start, token_end, 0, ops)

RECURSIVE eval(_, _, _)
eval(toks, token_start, token_end) ==
    IF token_start > token_end THEN Aborted
    ELSE
    LET token_diff == token_end - token_start
        t0 == toks[token_start]
        t1 == toks[token_end]
    IN  IF token_diff = 0 \/ token_diff = 1
        THEN CASE token_diff = 0 /\ t0.type = TK_NUMBER -> atoi(t0.str)
               [] token_diff = 0 /\ t0.type = TK_HEX_NUMBER -> Val(strtol16(t0.str))
               [] token_diff = 1 /\ t0.type = TK_DEREF
                    /\ t1.type \in {TK_NUMBER, TK_HEX_NUMBER} -> Val(DEREF_VALUE)
               [] token_diff = 0 /\ t0.type = TK_REG_NAME -> Val(REG_VALUE)
               [] OTHER -> Aborted
        ELSE IF ~check_parentheses(toks, token_start, token_end) THEN Aborted
        ELSE IF /\ t0.type = TK_OPENPARENTHESIS
                /\ t1.type = TK_CLOSEPARENTHESIS
                /\ check_parentheses(toks, token_start + 1, token_end - 1)
        THEN eval(toks, token_start + 1, token_end - 1)
        ELSE
        LET a == ScanSplit(toks, token_start, token_end, {TK_ADD, TK_SUB})
            m == ScanSplit(toks, token_start, token_end, {TK_MULTIPLY, TK_DIVIDE})
        IN  IF a # -1
            THEN Combine(toks[a].type, eval(toks, token_start, a - 1),
                                       eval(toks, a + 1, token_end))
            ELSE IF m # -1
            THEN Combine(toks[m].type, eval(toks, token_start, m - 1),
                                       eval(toks, m + 1, token_end))
            ELSE Aborted

\* The calls eval(token_start, token_end) makes of itself, itself included,
\* as pairs <<token_start, token_end>>.  The two operands of an operator are
\* evaluated in an order the compiler chooses, the left one first when
\* leftFirst; an assert(0) in the first ends the process before the second
\* is called.
RECURSIVE EvalCalls(_, _, _, _)
EvalCalls(leftFirst, toks, token_start, token_end) ==
    {<<token_start, token_end>>} \cup
    IF token_start > token_end THEN {}
    ELSE IF token_end - token_start \in {0, 1} THEN {}
    ELSE IF ~check_parentheses(toks, token_start, token_end) THEN {}
    ELSE IF /\ toks[token_start].type = TK_OPENPARENTHESIS
            /\ toks[token_end].type = TK_CLOSEPARENTHESIS
            /\ check_parentheses(toks, token_start + 1, token_end - 1)
    THEN EvalCalls(leftFirst, toks, token_start + 1, token_end - 1)
    ELSE
    LET a == ScanSplit(toks, token_start, token_end, {TK_ADD, TK_SUB})
        m == ScanSplit(toks, token_start, token_end, {TK_MULTIPLY, TK_DIVIDE})
        k == IF a # -1 THEN a ELSE m
        l == <<token_start, k - 1>>
        r == <<k + 1, token_end>>
        first == IF leftFirst THEN l ELSE r
        second == IF leftFirst THEN r ELSE l
    IN  IF k = -1 THEN {}
        ELSE EvalCalls(leftFirst, toks, first[1], first[2]) \cup
             (IF eval(toks, first[1], first[2]).k = "assert" THEN {}
              ELSE EvalCalls(leftFirst, toks, second[1], second[2]))

\* The fields of tokens that check_parentheses(token_start, token_end)
\* reads, as pairs <<index, field>>: the types from token_end down, until
\* the count falls below 0
RECURSIVE CheckParenReads(_, _, _, _)
CheckParenReads(toks, token_start, token_end, num) ==
    IF token_end < token_start THEN {}
    ELSE LET ty == toks[token_end].type
             n1 == CASE ty = TK_CLOSEPARENTHESIS -> num + 1
                     [] ty = TK_OPENPARENTHESIS -> num - 1
                     [] OTHER -> num
         IN  {<<token_end, "type">>} \cup
             (IF n1 < 0 THEN {}
              ELSE CheckParenReads(toks, token_start, token_end - 1, n1))

\* the types a backward scan reads: from token_end down to the split k, or
\* to token_start when there is none (k = -1)
ScanReads(token_start, token_end, k) ==
    {<<i, "type">> : i \in (IF k = -1 THEN token_start ELSE k)..token_end}

\* The fields of tokens that eval(token_start, token_end) and the calls it
\* makes read (the arguments of Log included), with the operands of an
\* operator evaluated left one first when leftFirst.
RECURSIVE EvalReads(_, _, _, _)
EvalReads(leftFirst, toks, token_start, token_end) ==
    IF token_start > token_end THEN {}
    ELSE
    LET token_diff == token_end - token_start
        t0 == toks[token_start]
        t1 == toks[token_end]
    IN  IF token_diff = 0
        THEN {<<token_start, "type">>} \cup
             (IF t0.type \in {TK_NUMBER, TK_HEX_NUMBER, TK_REG_NAME}
              THEN {<<token_start, "str">>} ELSE {})
        ELSE IF token_diff = 1
        THEN (IF t0.type = TK_DEREF
              THEN {<<token_start, "type">>, <<token_end, "type">>} \cup
                   (IF t1.type \in {TK_NUMBER, TK_HEX_NUMBER}
                    THEN {<<token_end, "str">>} ELSE {})
              ELSE {<<token_start, "type">>})
        ELSE
        CheckParenReads(toks, token_start, token_end, 0) \cup
        IF ~check_parentheses(toks, token_start, token_end) THEN {}
        ELSE
        {<<token_start, "type">>} \cup
        (IF t0.type = TK_OPENPARENTHESIS THEN {<<token_end, "type">>} ELSE {}) \cup
        (IF t0.type = TK_OPENPARENTHESIS /\ t1.type = TK_CLOSEPARENTHESIS
         THEN CheckParenReads(toks, token_start + 1, token_end - 1, 0) ELSE {}) \cup
        IF /\ t0.type = TK_OPENPARENTHESIS
           /\ t1.type = TK_CLOSEPARENTHESIS
           /\ check_parentheses(toks, token_start + 1, token_end - 1)
        THEN EvalReads(leftFirst, toks, token_start + 1, token_end - 1)
        ELSE
        LET a == ScanSplit(toks, token_start, token_end, {TK_ADD, TK_SUB})
            m == ScanSplit(toks, token_start, token_end, {TK_MULTIPLY, TK_DIVIDE})
            k == IF a # -1 THEN a ELSE m
            l == <<token_start, k - 1>>
            r == <<k + 1, token_end>>
            first == IF leftFirst THEN l ELSE r
            second == IF leftFirst THEN r ELSE l
        IN  ScanReads(token_start, token_end, a) \cup
            (IF a = -1 THEN ScanReads(token_start, token_end, m) ELSE {}) \cup
            (IF k = -1 THEN {}
             ELSE EvalReads(leftFirst, toks, first[1], first[2]) \cup
                  (IF eval(toks, first[1], first[2]).k = "assert" THEN {}
                   ELSE EvalReads(leftFirst, toks, second[1], second[2])))

----------------------------------------------------------------------------
(* The inputs of expr(): generated well-formed expressions, raw strings *)

\* parenthesis nesting of a generated well-formed expression
MaxParen == 1

\* printf("%d", n) for n >= 0
RECURSIVE DecText(_)
DecText(n) ==
    IF n < 10 THEN <<DecDigits[n + 1]>>
    ELSE DecText(n \div 10) \o <<DecDigits[(n % 10) + 1]>>

HexDigitsOf(upper) == DecDigits \o (IF upper THEN UpperHex ELSE LowerHex)

\* the hex digits of n >= 0, without prefix
RECURSIVE HexDigitsText(_, _)
HexDigitsText(n, upper) ==
    IF n < 16 THEN <<HexDigitsOf(upper)[n + 1]>>
    ELSE HexDigitsText(n \div 16, upper) \o <<HexDigitsOf(upper)[(n % 16) + 1]>>

\* printf("0x%x", n) and printf("0X%X", n)
HexText(n, upper) ==
    (IF upper THEN <<"0", "X">> ELSE <<"0", "x">>) \o HexDigitsText(n, upper)

\* A well-formed expression is a tree of the standard grammar
\*   Expr ::= Term | Expr (+|-) Term      Term ::= Factor | Term (*|/) Factor
\*   Factor ::= literal | ( Expr )
\* with nodes <<"num", n, base>>, <<"par", x>> and <<"bin", op, l, r>>.
Leaves == {<<"num", 0, "dec">>, <<"num", 7, "dec">>, <<"num", 2, "hex">>}

RECURSIVE FactorsOf(_, _), TermsOf(_, _), ExprsOf(_, _)
FactorsOf(n, d) ==
    (IF n = 1 THEN Leaves ELSE {})
        \cup (IF d > 0 THEN {<<"par", x>> : x \in ExprsOf(n, d - 1)} ELSE {})
TermsOf(n, d) ==
    FactorsOf(n, d) \cup
        UNION {{<<"bin", op, t, f>> : op \in {"*", "/"}, t \in TermsOf(k, d),
                                      f \in FactorsOf(n - k, d)} : k \in 1..(n - 1)}
ExprsOf(n, d) ==
    TermsOf(n, d) \cup
        UNION {{<<"bin", op, x, t>> : op \in {"+", "-"}, x \in ExprsOf(k, d),
                                      t \in TermsOf(n - k, d)} : k \in 1..(n - 1)}

\* the integers whose decimal and hexadecimal texts are evaluated
RoundTripValues ==
    {0, 1, 9, 10, 15, 16, 255, 256, 4095, 65536, 1000000, 16777215, 305419896,
     2147483646, IntMax}

RoundTripAsts == {<<"num", n, b>> : n \in RoundTripValues, b \in {"dec", "hex", "HEX"}}

\* the examples of the specification, as trees
Num(n) == <<"num", n, "dec">>
Bin(op, l, r) == <<"bin", op, l, r>>
Par(x) == <<"par", x>>
ExampleAsts ==
    { Bin("+", Num(2), Bin("*", Num(3), Num(4))),
      Bin("*", Par(Bin("+", Num(2), Num(3))), Num(4)),
      Bin("-", Bin("-", Num(10), Num(3)), Num(2)),
      Bin("/", Bin("/", Num(20), Num(4)), Num(5)),
      Bin("+", Par(Num(1)), Par(Num(2))),
      Bin("+", Bin("-", Bin("+", Num(1), Num(2)), Num(3)), Num(4)),
      Bin("/", Bin("*", Bin("/", Num(8), Num(2)), Num(3)), Num(4)),
      Bin("*", Par(Bin("+", Num(1), Num(2))), Par(Bin("-", Num(3), Num(4)))),
      Par(Par(Bin("-", Num(1), Par(Bin("-", Num(2), Num(3)))))) }

\* the trees of at most leaves literals and depth nested parentheses, and
\* the examples
WfAsts(leaves, depth) ==
    UNION {ExprsOf(n, depth) : n \in 1..leaves} \cup RoundTripAsts \cup ExampleAsts

RECURSIVE Render(_)
Render(a) ==
    CASE a[1] = "num" -> IF a[3] = "dec" THEN DecText(a[2]) ELSE HexText(a[2], a[3] = "HEX")
      [] a[1] = "par" -> <<"(">> \o Render(a[2]) \o <<")">>
      [] a[1] = "bin" -> Render(a[3]) \o <<a[2]>> \o Render(a[4])

\* the reference evaluation of a tree: ok is FALSE when a divisor is zero
RECURSIVE RefEval(_)
RefEval(a) ==
    CASE a[1] = "num" -> [ok |-> TRUE, v |-> a[2]]
      [] a[1] = "par" -> RefEval(a[2])
      [] a[1] = "bin" ->
            LET l == RefEval(a[3])
                r == RefEval(a[4])
            IN  IF ~l.ok \/ ~r.ok \/ (a[2] = "/" /\ r.v = 0) THEN [ok |-> FALSE, v |-> 0]
                ELSE [ok |-> TRUE,
                      v |-> CASE a[2] = "+" -> l.v + r.v
                              [] a[2] = "-" -> l.v - r.v
                              [] a[2] = "*" -> l.v * r.v
                              [] a[2] = "/" -> CDiv(l.v, r.v)]

WfCorpus(leaves, depth) ==
    {[kind |-> "ast", ast |-> a, text |-> Render(a)] : a \in WfAsts(leaves, depth)}

Rep(c, n) == [i \in 1..n |-> c]

RECURSIVE Times(_, _)
Times(str, n) == IF n = 0 THEN <<>> ELSE str \o Times(str, n - 1)

RawAlphabet == {"1", "+", "-", "*", "/", "(", ")", " "}

ShortStrings == UNION {[1..k -> RawAlphabet] : k \in 0..MaxLen}

\* 32 tokens, the last an operator; 32 tokens, the last a literal
Full32Op == Times(<<"1", "+">>, 16)
Full32Lit == <<"(">> \o Times(<<"1", "+">>, 15) \o <<"1">>

\* strings of 31, 32 and 33 tokens, with each kind of token in 33rd place
LongStrings ==
    {Times(<<"1", "+">>, 15) \o <<"1">>, Full32Op, Full32Lit,
     Times(<<"1", " ", "+", " ">>, 16)}
    \cup {Full32Op \o t : t \in {<<"1">>, <<"0", "x", "1">>, <<"$", "a">>, <<"(">>,
                                  <<"*">>, <<"-">>, <<"1", "+", "1">>, Rep("9", 32)}}
    \cup {Full32Lit \o t : t \in {<<"+">>, <<"-">>, <<"*">>, <<"/">>, <<")">>,
                                   <<" ", ")">>, <<")", "+", "1">>}}

\* literals and names of 30 to 33 characters
LexemeStrings ==
    UNION {{Rep("9", n), <<"0", "x">> \o Rep("f", n - 2), <<"$">> \o Rep("a", n - 1),
            <<"1", "+">> \o Rep("1", n), <<"(">> \o Rep("1", n) \o <<")">>}
           : n \in 30..33}

\* the examples of the specification and other strings of interest
ExampleStrings ==
    { <<"*", "0", "x", "2", "0", "0", "0">>,
      <<"3", "*", "0", "x", "2", "0", "0", "0">>,
      <<"-", "5">>, <<"1", "+", "-", "2">>, <<"+", "5">>, <<"*", "$", "p", "c">>,
      <<"(", "1", "+", "2">>, <<"1", "+", "2", ")">>, <<")", "1", "(">>,
      <<"(", "(", "1", "+", "2", ")">>, <<"(", "1", ")", ")", "+", "(", "2">>,
      <<"$", "p", "c">>, <<"$", "p", "c", "+", "1">>, <<"1", "=", "=", "1">>,
      <<"0">>, <<"1", "0">>, <<"0", "x">>, <<"0", "x", "g">>, <<"1", "#">>,
      <<"0", "X", "1", "F">>, <<"1", "/", "(", "1", "-", "1", ")">>,
      <<"(", "1", ")", "+", "(", "2", ")">> }

RawCorpus ==
    {[kind |-> "raw", text |-> t] :
        t \in ShortStrings \cup LongStrings \cup LexemeStrings \cup ExampleStrings}

\* the inputs of the runs that call expr() several times
SeqCorpus ==
    {[kind |-> "raw", text |-> t] :
        t \in {<<>>, <<"1">>, <<"1", "+", "2">>, <<"1", "+", "2", "#">>, <<"0">>,
               <<"(", "7", ")">>, <<"0", "x", "1", "0">>, <<"*", "5">>,
               <<"$", "p", "c">>, <<"2", "*", "3">>, <<"1", " ", "1">>,
               <<"9", "-", "0", "x", "a", "*", "2">>, <<"4", "5", "-", "6", "#">>,
               <<"7">>, <<"1", "2", "3">>}}

CorpusOf(c) ==
    CASE c = "wf" -> WfCorpus(MaxLeaves, MaxParen)
      [] c = "raw" -> RawCorpus
      [] c = "seq" -> SeqCorpus

\* calls of expr() in a run over corpus c
CallsOf(c) == IF c = "seq" THEN MaxCalls ELSE 1

----------------------------------------------------------------------------
(* expr.c: expr() as a state machine *)

NoStep == [st |-> "none", wr |-> -1, len |-> 0, raw |-> 0, nr_before |-> 0]
NoEntry == [kind |-> "none", text |-> <<>>]

\* the values an undefined computation is taken to return
UndefinedValues == {0, 1, -1}

InitExprWith(c) ==
    /\ pc = "idle"
    /\ e = <<>>
    /\ position = 0
    /\ nr_token = 0
    /\ tokens = [i \in 0..(NR_TOKENS - 1) |-> [type |-> 0, str |-> <<>>]]
    /\ success = FALSE
    /\ result = 0
    /\ outcome = "none"
    /\ ncalls = 0
    /\ cur = NoEntry
    /\ corpus = c
    /\ step = NoStep

\* expr(e, &success) is called: *success = true, and make_token starts
\* with position = 0 and nr_token = 0
ExprCall ==
    /\ pc = "idle"
    /\ ncalls < CallsOf(corpus)
    /\ \E c \in CorpusOf(corpus) :
        /\ cur' = c
        /\ e' = c.text
    /\ ncalls' = ncalls + 1
    /\ pc' = "make_token"
    /\ position' = 0
    /\ nr_token' = 0
    /\ success' = TRUE
    /\ outcome' = "running"
    /\ step' = NoStep
    /\ UNCHANGED <<tokens, result, corpus>>

\* one iteration of the while loop of make_token; on "no match" make_token
\* returns false and expr returns 0 with *success = false; a panic ends the
\* process
MakeTokenLoop ==
    /\ pc = "make_token"
    /\ position < Len(e)
    /\ \E r \in {MakeTokenIter(e, position, nr_token, tokens)} :
           /\ position' = r.position
           /\ nr_token' = r.nr_token
           /\ tokens' = r.tokens
           /\ step' = [st |-> r.st, wr |-> r.wr, len |-> r.len, raw |-> r.raw,
                       nr_before |-> nr_token]
           /\ pc' = CASE r.st = "more" -> "make_token"
                      [] r.st = "nomatch" -> "idle"
                      [] OTHER -> "dead"
           /\ success' = IF r.st = "nomatch" THEN FALSE ELSE success
           /\ result' = IF r.st = "nomatch" THEN 0 ELSE result
           /\ outcome' = IF r.st = "more" THEN outcome ELSE r.st
    /\ UNCHANGED <<e, ncalls, cur, corpus>>

\* make_token returns true at the end of the string; expr returns
\* eval(0, nr_token - 1), unless eval aborts
ExprEval ==
    /\ pc = "make_token"
    /\ position = Len(e)
    /\ \E r \in {eval(tokens, 0, nr_token - 1)} :
           CASE r.k = "val" ->
                    /\ result' = r.v
                    /\ pc' = "idle"
                    /\ outcome' = "value"
             [] r.k = "assert" ->
                    /\ pc' = "dead"
                    /\ outcome' = "assert"
                    /\ UNCHANGED result
             [] r.k = "ub" ->
                    \/ /\ pc' = "dead"
                       /\ outcome' = "crash"
                       /\ UNCHANGED result
                    \/ /\ pc' = "idle"
                       /\ outcome' = "undefined"
                       /\ result' \in UndefinedValues
    /\ UNCHANGED <<e, position, nr_token, tokens, success, ncalls, cur, corpus, step>>

NextExpr ==
    \/ ExprCall /\ UNCHANGED sdbVars
    \/ MakeTokenLoop /\ UNCHANGED sdbVars
    \/ ExprEval /\ UNCHANGED sdbVars

----------------------------------------------------------------------------
(* sdb.c: strings *)

RECURSIVE SkipDelims(_, _)
SkipDelims(s, p) == IF At(s, p) = " " THEN SkipDelims(s, p + 1) ELSE p

RECURSIVE TokenEnd(_, _)
TokenEnd(s, p) == IF p < Len(s) /\ At(s, p) # " " THEN TokenEnd(s, p + 1) ELSE p

\* strtok(.., " ") scanning s from offset p: the token s[start, end) and the
\* offset the next call scans from; found is FALSE for a NULL return
strtok(s, p) ==
    LET b == SkipDelims(s, p)
        n == TokenEnd(s, b)
    IN  IF b >= Len(s)
        THEN [found |-> FALSE, start |-> b, end |-> b, next |-> b, tok |-> <<>>]
        ELSE [found |-> TRUE, start |-> b, end |-> n,
              next |-> IF n < Len(s) THEN n + 1 ELSE n,
              tok |-> SubSeq(s, b + 1, n)]

IsSpace(c) == c = " "

RECURSIVE SkipSpaces(_, _)
SkipSpaces(s, p) == IF IsSpace(At(s, p)) THEN SkipSpaces(s, p + 1) ELSE p

IsBaseDigit(c, base) == IF base = 16 THEN IsHexDigit(c) ELSE IsDigit(c)

RECURSIVE Accumulate(_, _, _, _)
Accumulate(s, p, base, acc) ==
    IF IsBaseDigit(At(s, p), base)
    THEN Accumulate(s, p + 1, base, acc * base + HexVal(At(s, p)))
    ELSE [val |-> acc, end |-> p]

\* strtol(s, &endptr, base) for base 10 or 16: white space, a sign, for
\* base 16 a "0x" or "0X" that a hex digit follows, then digits; without
\* digits the value is 0 and endptr is s.  (The inputs of this model stay
\* below 2^31; strtol itself saturates at LONG_MAX.)
strtol(s, base) ==
    LET b == SkipSpaces(s, 0)
        neg == At(s, b) = "-"
        d0 == IF At(s, b) \in {"-", "+"} THEN b + 1 ELSE b
        d == IF /\ base = 16
                /\ At(s, d0) = "0"
                /\ At(s, d0 + 1) \in {"x", "X"}
                /\ IsHexDigit(At(s, d0 + 2))
             THEN d0 + 2 ELSE d0
        r == Accumulate(s, d, base, 0)
    IN  IF r.end = d THEN [val |-> 0, end |-> 0]
        ELSE [val |-> IF neg THEN -r.val ELSE r.val, end |-> r.end]

\* atoi(s) and atol(s)
atol(s) == strtol(s, 10).val

----------------------------------------------------------------------------
(* sdb.c: the commands *)

cmd_table == <<<<"h", "e", "l", "p">>, <<"c">>, <<"q">>, <<"s", "i">>, <<"i", "n", "f", "o">>, <<"x">>, <<"p">>, <<"w">>, <<"d">>>>

NR_CMD == Len(cmd_table)

\* bytes in a row of the x command's output
ROW_BYTES == 8

\* the memory collaborator's bounds check
in_pmem(pm, addr) == pm.lo <= addr /\ addr < pm.hi

\* the states cpu_exec may leave in nemu_state.state
CpuExecOutcomes == {"NEMU_STOP", "NEMU_END", "NEMU_ABORT", "NEMU_QUIT"}

\* group_num of cmd_x
GroupNum(pr_num) ==
    CDiv(pr_num, ROW_BYTES) + (IF CMod(pr_num, ROW_BYTES) # 0 THEN 1 ELSE 0)

\* an inner loop that sets the flag without leaving: the break is missing
RECURSIVE XColumnsNoBreak(_, _, _)
XColumnsNoBreak(pm, base, j) ==
    IF j >= ROW_BYTES THEN <<>>
    ELSE IF ~in_pmem(pm, base + j)
    THEN <<[ev |-> "check", a |-> base + j, ok |-> FALSE],
           [ev |-> "read", a |-> base + j, ok |-> TRUE]>> \o XColumnsNoBreak(pm, base, j + 1)
    ELSE <<[ev |-> "check", a |-> base + j, ok |-> TRUE],
           [ev |-> "read", a |-> base + j, ok |-> TRUE]>> \o XColumnsNoBreak(pm, base, j + 1)

\* the inner for loop of cmd_x from column j: its events; it ends with a
\* failed check exactly when it leaves with out_of_pmem_flag set
RECURSIVE XColumns(_, _, _)
XColumns(pm, base, j) ==
    IF j >= ROW_BYTES THEN <<>>
    ELSE IF ~in_pmem(pm, base + j)
    THEN <<[ev |-> "check", a |-> base + j, ok |-> FALSE]>>
    ELSE <<[ev |-> "check", a |-> base + j, ok |-> TRUE],
           [ev |-> "read", a |-> base + j, ok |-> TRUE]>> \o XColumns(pm, base, j + 1)

OutOfPmemFlag(row) == row # <<>> /\ ~row[Len(row)].ok

\* the rows of cmd_x's outer for loop from row i, given the events of row i
RECURSIVE XRows(_, _, _, _)
XRowsAfter(pm, pr_addr, group_num, i, row) ==
    LET head == <<[ev |-> "row", a |-> pr_addr + (i * ROW_BYTES), ok |-> TRUE]>> \o row
    IN  IF OutOfPmemFlag(row)
        THEN head \o <<[ev |-> "marker", a |-> pr_addr + (i * ROW_BYTES), ok |-> FALSE]>>
        ELSE head \o XRows(pm, pr_addr, group_num, i + 1)

\* the outer for loop of cmd_x from row i
XRows(pm, pr_addr, group_num, i) ==
    IF i >= group_num THEN <<>>
    ELSE XRowsAfter(pm, pr_addr, group_num, i, XColumns(pm, pr_addr + (i * ROW_BYTES), 0))

Unsupported == <<[ev |-> "unsupported", a |-> 0, ok |-> FALSE]>>

\* cmd_x: the events of the handler; args is FALSE for a NULL args, next is
\* the offset strtok(NULL, " ") scans from
cmd_x(pm, str, args, next) ==
    LET arg1 == strtok(str, next)
        arg2 == strtok(str, arg1.next)
        pr_num == atol(arg1.tok)
        pr_addr == strtol(arg2.tok, 16)
    IN  IF ~args \/ ~arg1.found \/ ~arg2.found THEN Unsupported
        ELSE IF pr_addr.end # Len(arg2.tok) THEN Unsupported
        ELSE XRows(pm, pr_addr.val, GroupNum(pr_num), 0)

Note(what) == <<[ev |-> what, a |-> 0, ok |-> TRUE]>>

\* cmd_si: step is atoi(args), 1 without args; 0 is refused
cmd_si(str, args, args_off) ==
    LET stp == IF args THEN atol(From(str, args_off)) ELSE 1
    IN  IF stp = 0 THEN [out |-> Note("illegal_step"), exec |-> FALSE]
        ELSE [out |-> <<[ev |-> "cpu_exec", a |-> stp, ok |-> TRUE]>>, exec |-> TRUE]

\* cmd_info
cmd_info(str, args, args_off) ==
    LET a == From(str, args_off)
    IN  IF ~args THEN Note("need_subcommand")
        ELSE IF Min(Len(a), 2) # 1 THEN Note("unsupported_subcommand")
        ELSE IF a[1] = "r" THEN Note("isa_reg_display")
        ELSE IF a[1] = "w" THEN Note("info_w")
        ELSE Note("unsupported_subcommand")

\* cmd_help
cmd_help(str, next) ==
    LET arg == strtok(str, next)
    IN  IF ~arg.found THEN Note("help_all")
        ELSE IF \E i \in 1..NR_CMD : cmd_table[i] = arg.tok THEN Note("help_one")
        ELSE Note("help_unknown")

\* cmd_table[i].handler(args): the status it returns, the state it leaves in
\* nemu_state.state, its events, and whether it called cpu_exec (which then
\* decides nemu_state.state)
Handler(i, pm, ns, str, args, args_off, next) ==
    LET name == cmd_table[i]
    IN  CASE name = <<"h", "e", "l", "p">> ->
                [ret |-> 0, ns |-> ns, out |-> cmd_help(str, next), exec |-> FALSE]
          [] name = <<"c">> ->
                [ret |-> 0, ns |-> ns, exec |-> TRUE,
                 out |-> <<[ev |-> "cpu_exec", a |-> -1, ok |-> TRUE]>>]
          [] name = <<"q">> -> [ret |-> -1, ns |-> "NEMU_QUIT", out |-> <<>>, exec |-> FALSE]
          [] name = <<"s", "i">> ->
                LET r == cmd_si(str, args, args_off)
                IN  [ret |-> 0, ns |-> ns, out |-> r.out, exec |-> r.exec]
          [] name = <<"i", "n", "f", "o">> ->
                [ret |-> 0, ns |-> ns, out |-> cmd_info(str, args, args_off), exec |-> FALSE]
          [] name = <<"x">> ->
                [ret |-> 0, ns |-> ns, out |-> cmd_x(pm, str, args, next), exec |-> FALSE]
          [] OTHER -> [ret |-> 0, ns |-> ns, out |-> <<>>, exec |-> FALSE]

\* the index of the first entry of cmd_table named cmd, NR_CMD + 1 when
\* there is none (i == NR_CMD in the source's 0-based count)
LookupCmd(cmd) ==
    IF \E i \in 1..NR_CMD : cmd_table[i] = cmd
    THEN CHOOSE i \in 1..NR_CMD :
            cmd_table[i] = cmd /\ \A j \in 1..(i - 1) : cmd_table[j] # cmd
    ELSE NR_CMD + 1

NoLast ==
    [eof |-> FALSE, line |-> <<>>, cmd |-> <<>>, found |-> FALSE, invoked |-> <<>>,
     ret |-> 0, out |-> <<>>]

\* a loop that also returns on status 0 (<= for <)
StopsLoopOnZero(ret) == ret <= 0

\* what a handler's status does to the loop: return on a negative one
StopsLoop(ret) == ret < 0

\* the state in nemu_state.state when rl_gets() returns NULL
AtEndOfInput(ns) == ns

\* One pass of the for loop of sdb_mainloop: rl_gets() returns str, or NULL
\* when eof.  Gives the loop's next place, nemu_state.state and the record
\* of the pass, and whether cpu_exec ran.
MainloopPass(eof, str, pm, ns) ==
    IF eof
    THEN [spc |-> "returned", ns |-> AtEndOfInput(ns), exec |-> FALSE,
          last |-> [NoLast EXCEPT !.eof = TRUE]]
    ELSE
    LET t == strtok(str, 0)
        cmd == t.tok
        args_off == t.start + Len(cmd) + 1
        args == args_off < Len(str)
        i == LookupCmd(cmd)
        base == [NoLast EXCEPT !.line = str, !.cmd = cmd, !.found = t.found]
    IN  IF ~t.found THEN [spc |-> "loop", ns |-> ns, exec |-> FALSE, last |-> base]
        ELSE IF i = NR_CMD + 1
        THEN [spc |-> "loop", ns |-> ns, exec |-> FALSE,
              last |-> [base EXCEPT !.out = Note("unknown_command")]]
        ELSE LET h == CHOOSE r \in {Handler(i, pm, ns, str, args, args_off, t.next)} : TRUE
             IN  [spc |-> IF StopsLoop(h.ret) THEN "returned" ELSE "loop",
                  ns |-> h.ns, exec |-> h.exec,
                  last |-> [base EXCEPT !.invoked = <<cmd_table[i]>>, !.ret = h.ret,
                                        !.out = h.out]]

----------------------------------------------------------------------------
(* sdb.c: sdb_mainloop as a state machine *)

XLines ==
    {<<"x", " ">> \o n \o <<" ">> \o a :
        n \in {<<"0">>, <<"1">>, <<"2">>, <<"8">>, <<"9">>, <<"1", "6">>, <<"1", "7">>, <<"-", "1">>, <<"-", "9">>, <<"2", "z">>, <<"z">>},
        a \in {<<"0", "x", "1", "0", "0", "0", "0", "0">>,
              <<"1", "0", "0", "0", "0", "0">>,
              <<"0", "X", "1", "0", "0", "0", "0", "8">>,
              <<"0", "x", "1", "0", "0", "0", "0", "c">>,
              <<"0", "x", "1", "0", "0", "0", "0", "C">>,
              <<"0", "x", "f", "f", "f", "f", "8">>,
              <<"0", "x", "7", "f", "f", "f", "f", "f", "f", "0">>,
              <<"0", "x", "1", "0", "0", "0", "2", "0">>,
              <<"0", "x", "1", "0", "g">>,
              <<"0", "x">>,
              <<"z", "z">>,
              <<"-", "0", "x", "1", "0">>}}

OtherLines ==
    { <<>>,
      <<" ">>,
      <<" ", " ", " ">>,
      <<"q">>,
      <<" ", "q">>,
      <<"q", " ">>,
      <<"q", " ", "n", "o", "w">>,
      <<"q", "q">>,
      <<"Q">>,
      <<"c">>,
      <<"c", " ", "1">>,
      <<"h", "e", "l", "p">>,
      <<"h", "e", "l", "p", " ", "x">>,
      <<"h", "e", "l", "p", " ", "z", "z">>,
      <<"s", "i">>,
      <<"s", "i", " ", "0">>,
      <<"s", "i", " ", "3">>,
      <<"s", "i", " ", "-", "2">>,
      <<"s", "i", " ", "x">>,
      <<"i", "n", "f", "o">>,
      <<"i", "n", "f", "o", " ", "r">>,
      <<"i", "n", "f", "o", " ", "w">>,
      <<"i", "n", "f", "o", " ", "r", "r">>,
      <<"i", "n", "f", "o", " ", "z">>,
      <<"p", " ", "1", "+", "2">>,
      <<"w", " ", "1">>,
      <<"d", " ", "1">>,
      <<"f", "o", "o">>,
      <<"x">>,
      <<"x", " ">>,
      <<"x", " ", "2">>,
      <<"x", " ", "2", " ">>,
      <<"x", "x", " ", "2", " ", "0", "x", "1", "0", "0", "0", "0", "0">>,
      <<"x", " ", " ", "2", " ", " ", " ", "0", "x", "1", "0", "0", "0", "0", "0", " ", "7">> }

Lines == XLines \cup OtherLines

\* the ranges [lo, hi) the memory collaborator maps: 0x100000 is 1048576
Pmem16 == [lo |-> 1048576, hi |-> 1048576 + 16]
PmemRanges ==
    {Pmem16, [lo |-> 1048576, hi |-> 1048576 + 20], [lo |-> 1048576, hi |-> 1048576 + 136]}

InitSdbWith(batch, ranges) ==
    /\ spc = "start"
    /\ is_batch_mode \in batch
    /\ nemu_state = "NEMU_STOP"
    /\ pmem \in ranges
    /\ nlines = 0
    /\ last = NoLast

\* sdb_mainloop in batch mode: cmd_c(NULL), return
BatchRun ==
    /\ spc = "start"
    /\ is_batch_mode
    /\ nemu_state' \in CpuExecOutcomes
    /\ spc' = "returned"
    /\ last' = [NoLast EXCEPT !.invoked = <<<<"c">>>>,
                              !.out = <<[ev |-> "cpu_exec", a |-> -1, ok |-> TRUE]>>]
    /\ UNCHANGED <<is_batch_mode, pmem, nlines>>

\* sdb_mainloop in interactive mode enters the for loop
EnterLoop ==
    /\ spc = "start"
    /\ ~is_batch_mode
    /\ spc' = "loop"
    /\ UNCHANGED <<is_batch_mode, nemu_state, pmem, nlines, last>>

\* rl_gets() returns a line and the loop's body runs
ReadLine ==
    /\ spc = "loop"
    /\ nlines < MaxLines
    /\ \E str \in Lines :
        \E r \in {MainloopPass(FALSE, str, pmem, nemu_state)} :
            /\ spc' = r.spc
            /\ nemu_state' \in (IF r.exec THEN CpuExecOutcomes ELSE {r.ns})
            /\ last' = r.last
    /\ nlines' = nlines + 1
    /\ UNCHANGED <<is_batch_mode, pmem>>

\* rl_gets() returns NULL
ReadEof ==
    /\ spc = "loop"
    /\ \E r \in {MainloopPass(TRUE, <<>>, pmem, nemu_state)} :
           /\ spc' = r.spc
           /\ nemu_state' = r.ns
           /\ last' = r.last
    /\ UNCHANGED <<is_batch_mode, pmem, nlines>>

NextSdb ==
    \/ BatchRun /\ UNCHANGED exprVars
    \/ EnterLoop /\ UNCHANGED exprVars
    \/ ReadLine /\ UNCHANGED exprVars
    \/ ReadEof /\ UNCHANGED exprVars

----------------------------------------------------------------------------
(* Specifications *)

\* the evaluator on generated well-formed expressions
InitWf == InitExprWith("wf") /\ InitSdbWith({FALSE}, {Pmem16})
SpecWf == InitWf /\ [][NextExpr]_vars

\* the lexer and the evaluator on raw strings
InitLex == InitExprWith("raw") /\ InitSdbWith({FALSE}, {Pmem16})
SpecLex == InitLex /\ [][NextExpr]_vars

\* several calls of expr() in a row
InitSeq == InitExprWith("seq") /\ InitSdbWith({FALSE}, {Pmem16})
SpecSeq == InitSeq /\ [][NextExpr]_vars

\* the command loop
InitSdb == InitExprWith("raw") /\ InitSdbWith(BOOLEAN, PmemRanges)
SpecSdb == InitSdb /\ [][NextSdb]_vars

Init == InitSdb
Next == NextSdb
Spec == SpecSdb

----------------------------------------------------------------------------
(* Properties *)

\* a call of expr() has ended: it returned, or the process died in it
CallEnded == ncalls > 0 /\ pc # "make_token"

\* eval ran in the call that ended (make_token returned true)
EvalRan == CallEnded /\ outcome \in {"value", "assert", "crash", "undefined"}

IsAst == cur.kind = "ast"

\* whether a tree holds the decimal literal 0
RECURSIVE HasDecimalZero(_)
HasDecimalZero(a) ==
    CASE a[1] = "num" -> a[2] = 0 /\ a[3] = "dec"
      [] a[1] = "par" -> HasDecimalZero(a[2])
      [] a[1] = "bin" -> HasDecimalZero(a[3]) \/ HasDecimalZero(a[4])

\* C1: for every well-formed expression of at most 32 tokens over decimal
\* and hex literals, + - * / and parentheses, without a zero divisor, expr()
\* reports success and returns the value of the reference evaluation
\* (* and / bind tighter, equal precedence associates to the left,
\* parentheses group).
C1_WellFormedValue ==
    (CallEnded /\ IsAst /\ RefEval(cur.ast).ok) =>
        /\ pc = "idle"
        /\ success
        /\ outcome = "value"
        /\ result = RefEval(cur.ast).v

\* C1, for the expressions that hold no decimal literal 0: what remains of
\* the claim once the literal that C4 shows unlexable is left out.
C1_ValueWithoutDecimalZero ==
    (CallEnded /\ IsAst /\ RefEval(cur.ast).ok /\ ~HasDecimalZero(cur.ast)) =>
        /\ pc = "idle"
        /\ success
        /\ outcome = "value"
        /\ result = RefEval(cur.ast).v

\* the token stored by the last iteration of make_token's loop
Appended == step.wr # -1

\* the kinds after which the specification makes a '*' a dereference
AfterOperator ==
    \/ step.nr_before = 0
    \/ tokens[step.nr_before - 1].type \in
            {TK_ADD, TK_SUB, TK_MULTIPLY, TK_DIVIDE, TK_OPENPARENTHESIS}

\* C2: an appended token has kind dereference if and only if its raw match
\* is '*' and no token precedes it or the previous token is one of plus,
\* minus, multiply, divide, open-paren; a '+' or '-' is never a dereference.
C2_DerefOnlyForStar ==
    Appended =>
        (tokens[step.wr].type = TK_DEREF <=> (step.raw = TK_MULTIPLY /\ AfterOperator))

\* C2, for '*' alone: the part of the claim the code keeps.
C2_StarDeref ==
    (Appended /\ step.raw = TK_MULTIPLY) =>
        (tokens[step.wr].type = TK_DEREF <=> AfterOperator)

\* the parentheses of a string are balanced: scanning from the left the
\* depth never falls under zero and ends at zero
RECURSIVE BalancedFrom(_, _, _)
BalancedFrom(s, p, depth) ==
    IF p >= Len(s) THEN depth = 0
    ELSE IF At(s, p) = "(" THEN BalancedFrom(s, p + 1, depth + 1)
    ELSE IF At(s, p) = ")" THEN depth > 0 /\ BalancedFrom(s, p + 1, depth - 1)
    ELSE BalancedFrom(s, p + 1, depth)

Unbalanced(s) == ~BalancedFrom(s, 0, 0)

\* C3: for every token sequence with unbalanced parentheses, evaluation ends
\* by returning a failure to the caller of expr(): the process is not
\* terminated and no value is returned.
C3_UnbalancedReturnsFailure ==
    (EvalRan /\ Unbalanced(e)) => (pc = "idle" /\ ~success)

\* C4: for every n in [0, 2^31), expr() of the decimal text of n and of the
\* 0x-prefixed hexadecimal text of n reports success and returns n.
C4_LiteralRoundTrip ==
    (CallEnded /\ IsAst /\ cur.ast \in RoundTripAsts) =>
        /\ pc = "idle"
        /\ success
        /\ result = cur.ast[2]

\* C4, without the decimal text of 0: the round trip of every other literal.
C4_RoundTripWithoutDecimalZero ==
    (CallEnded /\ IsAst /\ cur.ast \in RoundTripAsts /\ ~HasDecimalZero(cur.ast)) =>
        /\ pc = "idle"
        /\ success
        /\ outcome = "value"
        /\ result = cur.ast[2]

\* the types of the rules whose match make_token stores
StoredTypes ==
    {TK_ADD, TK_SUB, TK_MULTIPLY, TK_DIVIDE, TK_OPENPARENTHESIS, TK_CLOSEPARENTHESIS,
     TK_NUMBER, TK_HEX_NUMBER, TK_REG_NAME}

\* C5: nr_token never exceeds 32 and no token is written at an index of 32
\* or more; a token matched when 32 are stored, whatever its kind, stops
\* tokenization at the token-count check before anything is stored, and
\* that check stops nothing else.
C5_TokenBufferCapacity ==
    /\ nr_token <= NR_TOKENS
    /\ step.wr < NR_TOKENS
    /\ Appended => (step.wr = step.nr_before /\ nr_token = step.nr_before + 1)
    /\ (step.raw \in StoredTypes /\ step.nr_before = NR_TOKENS) =>
            /\ step.st = "panic_nr"
            /\ ~Appended
            /\ nr_token = NR_TOKENS
            /\ pc = "dead"
    /\ step.st = "panic_nr" => (step.raw \in StoredTypes /\ step.nr_before = NR_TOKENS)

\* C5's case: a '*' in dereference position is the 33rd token.
C5_Witness ==
    /\ step.st = "panic_nr"
    /\ step.raw = TK_MULTIPLY
    /\ tokens[NR_TOKENS - 1].type = TK_ADD
    /\ nr_token = NR_TOKENS

LexemeTypes == {TK_NUMBER, TK_HEX_NUMBER, TK_REG_NAME}

\* C6: a decimal-literal, hex-literal or register-name token is stored only
\* if its matched length is strictly less than 31; a match of length 31 or
\* more stops tokenization with the lexeme overflow and stores nothing.
C6_LexemeUnder31 ==
    step.raw \in LexemeTypes =>
        /\ Appended => step.len < 31
        /\ step.len >= 31 => (step.st = "panic_substr" /\ ~Appended)

\* C6, as amended: such a token is stored only if its matched length is at
\* most 31 (strictly less than 32, the size of the str field), and then whole;
\* a match of 32 or more characters stops tokenization and stores nothing:
\* at the lexeme check when fewer than 32 tokens are stored, at the
\* token-count check otherwise.  The lexeme check stops nothing else.
C6_LexemeAtMost31 ==
    /\ step.raw \in LexemeTypes =>
        /\ Appended =>
            /\ step.len < STR_SIZE
            /\ tokens[step.wr].type = step.raw
            /\ tokens[step.wr].str = SubSeq(e, position - step.len + 1, position)
        /\ step.len >= STR_SIZE =>
            /\ ~Appended
            /\ pc = "dead"
            /\ step.st = (IF step.nr_before < NR_TOKENS THEN "panic_substr" ELSE "panic_nr")
        /\ (step.len < STR_SIZE /\ step.nr_before < NR_TOKENS) => Appended
    /\ step.st = "panic_substr" => (step.raw \in LexemeTypes /\ step.len >= STR_SIZE)

\* C6's case: a literal of exactly 31 characters is stored.
C6_Witness ==
    /\ step.raw = TK_NUMBER
    /\ step.len = 31
    /\ Appended
    /\ Len(tokens[step.wr].str) = 31

\* the names of the command table
CommandNames == Range(cmd_table)

\* C7: in interactive mode sdb_mainloop stops reading exactly when a handler
\* returned a negative status or the line reader reported end of input;
\* after an empty line, an unknown verb or a non-negative status it reads the
\* next line; at most one handler runs for a line, the one named exactly as
\* the verb.
C7_LoopStopsExactly ==
    ~is_batch_mode =>
        /\ spc = "returned" <=> (last.eof \/ last.ret < 0)
        /\ (spc # "returned" /\ nlines > 0) => spc = "loop"
        /\ Len(last.invoked) <= 1
        /\ \A k \in 1..Len(last.invoked) : last.invoked[k] = last.cmd
        /\ last.invoked # <<>> <=> (last.found /\ last.cmd \in CommandNames)
        /\ last.ret < 0 => last.invoked # <<>>

\* C7's case: the second line's handler returned a negative status.
C7_Witness ==
    /\ ~is_batch_mode
    /\ spc = "returned"
    /\ nlines = MaxLines
    /\ last.ret < 0
    /\ last.invoked = <<last.cmd>>

\* C8: from every state of the loop, the state in which sdb_mainloop returns
\* at end of input is the state in which it returns at the line 'q',
\* nemu_state.state = NEMU_QUIT included.
C8_EofIsImplicitQuit ==
    spc = "loop" =>
        LET atEof == MainloopPass(TRUE, <<>>, pmem, nemu_state)
            atQ == MainloopPass(FALSE, <<"q">>, pmem, nemu_state)
        IN  /\ atEof.spc = "returned"
            /\ atQ.spc = "returned"
            /\ atEof.ns = atQ.ns
            /\ atEof.ns = "NEMU_QUIT"

\* the events of kind k in a handler's output
EventsOf(out, k) == {i \in 1..Len(out) : out[i].ev = k}

\* the bounds check of the memory collaborator, on its own
Mapped(addr) == addr >= pmem.lo /\ addr < pmem.hi

\* C9: the x command reads no address that fails the bounds check: each
\* one-byte read follows the check of its address, addresses are checked in
\* increasing order, and at the first address that fails the marker is
\* printed once and no read and no row follows.
C9_NoReadOutsidePmem ==
    LET out == last.out
        checks == EventsOf(out, "check")
    IN  /\ \A i \in EventsOf(out, "read") :
            /\ Mapped(out[i].a)
            /\ i > 1
            /\ out[i - 1].ev = "check"
            /\ out[i - 1].a = out[i].a
        /\ \A i \in checks : out[i].ok = Mapped(out[i].a)
        /\ \A i, j \in checks : i < j => out[i].a < out[j].a
        /\ \A i \in checks : ~out[i].ok =>
            /\ i + 1 = Len(out)
            /\ out[i + 1].ev = "marker"
        /\ Cardinality(EventsOf(out, "marker")) <= 1
        /\ \A i \in EventsOf(out, "marker") : i > 1 /\ out[i - 1].ev = "check" /\ ~out[i - 1].ok

\* C9's case: the x command read a row and stopped at the first unmapped
\* address of the next.
C9_Witness ==
    /\ last.invoked = <<<<"x">>>>
    /\ EventsOf(last.out, "marker") # {}
    /\ Cardinality(EventsOf(last.out, "read")) = ROW_BYTES
    /\ Cardinality(EventsOf(last.out, "row")) = 2

\* the arguments of an x line: the count and the start address
XCount(line) == atol(strtok(line, strtok(line, 0).next).tok)
XAddr(line) == strtol(strtok(line, strtok(line, strtok(line, 0).next).next).tok, 16)
XLineOk(line) ==
    /\ strtok(line, strtok(line, strtok(line, 0).next).next).found
    /\ XAddr(line).end = Len(strtok(line, strtok(line, strtok(line, 0).next).next).tok)

\* the last line was an x command with count N >= 0 and start address A,
\* and every address of [A, A + 8 * N) is mapped
XAllMapped ==
    /\ last.invoked = <<<<"x">>>>
    /\ XLineOk(last.line)
    /\ XCount(last.line) >= 0
    /\ \A k \in 0..(8 * XCount(last.line) - 1) : Mapped(XAddr(last.line).val + k)

\* the one-byte reads of the output are those of its rows: 8 to a row, at
\* consecutive addresses from A, and there is no marker
RowsOfEight(out, a, rows) ==
    /\ Cardinality(EventsOf(out, "row")) = rows
    /\ Cardinality(EventsOf(out, "read")) = 8 * rows
    /\ {out[i].a : i \in EventsOf(out, "read")} = {a + k : k \in 0..(8 * rows - 1)}
    /\ {out[i].a : i \in EventsOf(out, "row")} = {a + 8 * r : r \in 0..(rows - 1)}
    /\ EventsOf(out, "marker") = {}
    /\ EventsOf(out, "unsupported") = {}

\* C10: for the x command with count N and start address A such that every
\* address in [A, A + 8 * N) is mapped, the handler prints exactly N rows of
\* 8 hex bytes each and no marker.
C10_PrintsNRows ==
    XAllMapped => RowsOfEight(last.out, XAddr(last.line).val, XCount(last.line))

\* what cmd_x prints under the same condition: ceil(N / 8) rows of 8 hex
\* bytes each and no marker.
C10_PrintsCeilRows ==
    XAllMapped =>
        RowsOfEight(last.out, XAddr(last.line).val, (XCount(last.line) + 7) \div 8)

\* C10's case: x 9 0x100000 with [0x100000, 0x100088) mapped prints 2 rows.
C10_Witness ==
    /\ XAllMapped
    /\ XCount(last.line) = 9
    /\ Cardinality(EventsOf(last.out, "row")) = 2
    /\ Cardinality(EventsOf(last.out, "read")) = 16

\* the calls of eval in the call of expr() that ended, for either order of
\* evaluation of the operands
CallsOfEval == UNION {EvalCalls(lf, tokens, 0, nr_token - 1) : lf \in BOOLEAN}

\* C11: for every input string that tokenizes successfully, the empty and
\* the whitespace-only string and strings with a leading or trailing binary
\* operator included, every call eval(lo, hi), the one of expr() and every
\* recursive one, satisfies 0 <= lo <= hi <= nr_token - 1.
C11_EvalRangeInvariant ==
    EvalRan => \A c \in CallsOfEval : 0 <= c[1] /\ c[1] <= c[2] /\ c[2] <= nr_token - 1

\* what eval keeps: 0 <= lo, hi <= nr_token - 1 and lo <= hi + 1, and a
\* call with lo > hi ends in assert(0) before it reads a token.
C11_RangeWithinOrEmpty ==
    EvalRan => \A c \in CallsOfEval :
        /\ 0 <= c[1]
        /\ c[2] <= nr_token - 1
        /\ c[1] <= c[2] + 1
        /\ c[1] > c[2] => (eval(tokens, c[1], c[2]) = Aborted /\ outcome \in {"assert", "crash", "undefined"})

\* a recursive call with lo > hi is reached: a divide heads the range
C11_EmptyRecursiveCall ==
    /\ EvalRan
    /\ nr_token > 0
    /\ \E c \in CallsOfEval : c[1] > c[2]

\* a buffer no field of which was written by the current call
StaleTokens == [i \in 0..(NR_TOKENS - 1) |-> [type |-> -1, str |-> <<"stale">>]]

\* the field rd = <<index, field>> of the buffer toks
FieldOf(toks, rd) == IF rd[2] = "type" THEN <<toks[rd[1]].type>> ELSE toks[rd[1]].str

\* the fields eval read in the call that ended, for either order of
\* evaluation of the operands
ReadsOfEval == UNION {EvalReads(lf, tokens, 0, nr_token - 1) : lf \in BOOLEAN}

\* a call of expr() has returned
CallReturned == ncalls > 0 /\ pc = "idle"

\* C12: the token buffer is rebuilt on every call of expr(): tokenization
\* starts with nr_token = 0; eval reads only tokens[0..nr_token-1], and
\* every field it reads was written during the current call and holds what
\* tokenization of the current string alone puts there; the success flag
\* and the value of a call that returns are those of the same string on a
\* buffer that holds nothing of earlier calls, also after a call that
\* failed with a lex error part-way through.
C12_RebuiltEveryCall ==
    LET f == make_token(e, StaleTokens)
    IN  /\ (pc = "make_token" /\ step = NoStep) => (nr_token = 0 /\ position = 0)
        /\ EvalRan =>
            \A rd \in ReadsOfEval :
                /\ rd[1] \in 0..(nr_token - 1)
                /\ FieldOf(f.tokens, rd) # FieldOf(StaleTokens, rd)
                /\ FieldOf(tokens, rd) = FieldOf(f.tokens, rd)
        /\ CallReturned =>
            /\ nr_token = f.nr_token
            /\ f.st \in {"done", "nomatch"}
            /\ success = (f.st = "done")
            /\ f.st = "nomatch" => (result = 0 /\ outcome = "nomatch")
            /\ outcome = "value" => eval(f.tokens, 0, f.nr_token - 1) = Val(result)

\* C12's case: the second call returns the value of '7' on a buffer that
\* holds what '45-6#' left when it failed at the '#'.
C12_Witness ==
    /\ CallReturned
    /\ ncalls = 2
    /\ e = <<"7">>
    /\ outcome = "value"
    /\ result = 7
    /\ nr_token = 1
    /\ tokens[1].type = TK_SUB
    /\ tokens[2].str = <<"6">>

====
